---- MODULE Spec2Model ----
(***************************************************************************)
(* Model of the durable offline store and its background synchronisation   *)
(* (src/scripts/offline_sync.py, class OfflineSync).                       *)
(*                                                                         *)
(* Two threads act on one OfflineSync object: "bg", the daemon thread      *)
(* started by _start_sync_thread, and "fg", the thread of the caller of    *)
(* the public methods.  Every SQL statement and every file access is one   *)
(* atomic step; the statements of one method interleave with the steps of  *)
(* the other thread.  A statement of the store may raise (the database     *)
(* file locked or unreadable): the methods catch the exception and go on,  *)
(* which the actions of the section on storage failures model.             *)
(*                                                                         *)
(* The module also models the risk and alert engine (src/ai_estimator.py,  *)
(* class AIHealthEstimator): calculate_individual_gas_risk in the float    *)
(* arithmetic of the code, and check_alerts with its table of candidates,  *)
(* each call one atomic step of one caller.  The engine and the store      *)
(* share no state: the engine writes alert_history.json and never calls    *)
(* OfflineSync.                                                            *)
(***************************************************************************)
EXTENDS Integers, Sequences, FiniteSets, TLC

\* ---------------------------------------------------------------- bounds
\* Number of store_* calls in a behaviour.
MaxAppends == 2
\* Last day of the clock (two instants a day, see Tick).
MaxDay == 1
\* Bits of the significand of a float of the model.
MantissaBits == 13
\* Number of check_alerts calls in a behaviour.
MaxEvals == 4

\* ------------------------------------------------------------- constants
\* The four tables, in the order of the unsynced_data dict (insertion order,
\* which is the order _perform_sync iterates in).
TableOrder == <<"pollution_readings", "alerts", "actions", "reports">>
Tables == {TableOrder[i] : i \in 1..Len(TableOrder)}
NumTables == Len(TableOrder)

Threads == {"bg", "fg"}
\* Values a caller stores (the non-key columns of a row).
Payloads == {"p1", "p2"}
OnePayload == {"p1"}
\* Arguments of cleanup_old_data(days).
CleanupDays == {0, 1}
\* Python's None, as a value comparable with a timestamp string.
None == << >>
\* Character codes of the separators of the two timestamp formats.
SpaceChar == 32
TChar == 84

VARIABLES
    db,          \* table -> set of rows [id, payload, synced, created_at]
    seq,         \* table -> sqlite_sequence.seq, largest id ever handed out
    is_online,   \* self.is_online
    status_file, \* sync_status.json: [exists, last_sync]
    now,         \* wall clock: [day, tod]
    pc,          \* thread -> position in the code
    batch,       \* thread -> unsynced_data of its running _perform_sync
    idx,         \* thread -> position of that cycle in TableOrder
    outcome,     \* thread -> table -> "none" | "ok" | "fail": result of the push
    pending,     \* thread -> pending_count local of get_sync_status
    lsread,      \* thread -> last_sync local of get_sync_status
    delivered,   \* history: <<table, id>> contained in a batch whose push succeeded
    issued,      \* history: table -> ids in the order the table handed them out
    appends,     \* history: number of store_* calls so far
    last,        \* history: the step just taken
    store_error, \* history: thread -> the cycle or status query it runs caught a
                 \* sqlite3 error
    assessment,  \* what calculate_individual_gas_risk returned to its latest caller
                 \* other than check_alerts
    minute,      \* datetime.now() of the latest check_alerts call, in minutes
    evaluations, \* history: the check_alerts calls so far, [at, readings] each
    active_alerts,  \* self.active_alerts: alert_key -> alert_info
    alerts,      \* what the latest check_alerts call returned
    alert_history   \* alert_history.json: the alerts saved, with their timestamps

syncVars == <<db, seq, is_online, status_file, now, pc, batch, idx, outcome,
              pending, lsread, delivered, issued, appends, last, store_error>>

engineVars == <<assessment, minute, evaluations, active_alerts, alerts,
                alert_history>>

vars == <<db, seq, is_online, status_file, now, pc, batch, idx, outcome,
          pending, lsread, delivered, issued, appends, last, store_error,
          assessment, minute, evaluations, active_alerts, alerts, alert_history>>

\* ------------------------------------------------------------ timestamps
\* A timestamp string is modelled by the tuple of its fields in the order
\* they are written; strings of one format compare as their tuples do.

\* SQLite's CURRENT_TIMESTAMP, "YYYY-MM-DD HH:MM:SS" (the clock of the host
\* is taken to be UTC, so that both formats name the same instant).
SqliteTimestamp(t) == <<t.day, SpaceChar, t.tod>>

\* datetime.isoformat(), "YYYY-MM-DDTHH:MM:SS.ffffff".
IsoFormat(t) == <<t.day, TChar, t.tod>>

\* a < b for TEXT values (SQLite's BINARY collation: bytewise).
TextLess(a, b) ==
    \E i \in 1..Len(a) :
        /\ i <= Len(b)
        /\ \A j \in 1..(i - 1) : a[j] = b[j]
        /\ a[i] < b[i]

\* datetime.now() - timedelta(days=d)
MinusDays(t, d) == [day |-> t.day - d, tod |-> t.tod]

\* t1 is an earlier instant than t2.
Earlier(t1, t2) == t1.day < t2.day \/ (t1.day = t2.day /\ t1.tod < t2.tod)

\* the instant a created_at string names
InstantOf(s) == [day |-> s[1], tod |-> s[3]]

\* ------------------------------------------------------------ floats
\* Python's float is IEEE 754 binary64: a sign, a significand of 53 bits and
\* an exponent, every operation rounded to the nearest value, ties to even.
\* The model keeps the format and the rounding and shortens the significand
\* to MantissaBits bits: [s, m, e] is s * m * 2^e with
\* 2^(MantissaBits-1) <= m < 2^MantissaBits, or m = 0.
RECURSIVE Pow2(_)
Pow2(k) == IF k = 0 THEN 1 ELSE 2 * Pow2(k - 1)

RECURSIVE BitLen(_)
BitLen(n) == IF n = 0 THEN 0 ELSE 1 + BitLen(n \div 2)

Zero == [s |-> 1, m |-> 0, e |-> 0]

\* n without its k low bits, rounded to nearest, ties to even
RoundHalfEven(n, k) ==
    LET q == n \div Pow2(k)
        r == n % Pow2(k)
        half == Pow2(k - 1)
    IN IF r > half \/ (r = half /\ q % 2 = 1) THEN q + 1 ELSE q

\* the float nearest to s * n * 2^e
Normal(s, n, e) ==
    IF n = 0 THEN Zero
    ELSE LET b == BitLen(n)
         IN IF b <= MantissaBits
              THEN [s |-> s, m |-> n * Pow2(MantissaBits - b),
                    e |-> e - (MantissaBits - b)]
              ELSE LET k == b - MantissaBits
                       q == RoundHalfEven(n, k)
                   IN IF q = Pow2(MantissaBits)
                        THEN [s |-> s, m |-> Pow2(MantissaBits - 1), e |-> e + k + 1]
                        ELSE [s |-> s, m |-> q, e |-> e + k]

\* float(n) of an int
FromInt(n) == IF n < 0 THEN Normal(-1, -n, 0) ELSE Normal(1, n, 0)

IsNegative(a) == a.s = -1 /\ a.m > 0

\* |a| < |b|
MagLess(a, b) ==
    IF a.m = 0 THEN b.m > 0
    ELSE b.m > 0 /\ (a.e < b.e \/ (a.e = b.e /\ a.m < b.m))

\* a < b and a <= b
FlLess(a, b) ==
    IF IsNegative(a) THEN (IF IsNegative(b) THEN MagLess(b, a) ELSE TRUE)
    ELSE (IF IsNegative(b) THEN FALSE ELSE MagLess(a, b))
FlLeq(a, b) == ~FlLess(b, a)

\* a * b
FlMul(a, b) == Normal(a.s * b.s, a.m * b.m, a.e + b.e)

\* a / b, b not zero: the quotient to MantissaBits + 2 bits and a sticky bit
FlDiv(a, b) ==
    IF a.m = 0 THEN Zero
    ELSE LET num == a.m * Pow2(MantissaBits + 1)
             q == num \div b.m
             sticky == IF num % b.m > 0 THEN 1 ELSE 0
         IN Normal(a.s * b.s, 2 * q + sticky, a.e - b.e - MantissaBits - 2)

\* a + b and a - b for a >= b >= 0.  An operand less than a quarter of the
\* other's last bit is lost in the rounding.
AddSub(a, b, sign) ==
    IF b.m = 0 THEN a
    ELSE IF a.m = 0 THEN b
    ELSE IF a.e - b.e > MantissaBits + 2 THEN a
    ELSE Normal(1, a.m * Pow2(a.e - b.e) + sign * b.m, b.e)
FlAdd(a, b) == IF MagLess(a, b) THEN AddSub(b, a, 1) ELSE AddSub(a, b, 1)
FlSub(a, b) == AddSub(a, b, -1)

\* min(a, b)
FlMin(a, b) == IF FlLess(b, a) THEN b ELSE a

\* the floats next to a positive float
NextUp(a) ==
    IF a.m = Pow2(MantissaBits) - 1
      THEN [s |-> 1, m |-> Pow2(MantissaBits - 1), e |-> a.e + 1]
      ELSE [a EXCEPT !.m = @ + 1]
NextDown(a) ==
    IF a.m = Pow2(MantissaBits - 1)
      THEN [s |-> 1, m |-> Pow2(MantissaBits) - 1, e |-> a.e - 1]
      ELSE [a EXCEPT !.m = @ - 1]

\* No call of calculate_individual_gas_risk yet.
NoAssessment == [gas |-> "", level |-> Zero, risk_level |-> "", risk_score |-> Zero]

\* ----------------------------------------------------------------- store
\* INTEGER PRIMARY KEY without AUTOINCREMENT: one more than the largest id the
\* table holds now.
NextIdRowid(t) ==
    IF db[t] = {} THEN 1
    ELSE (CHOOSE m \in {r.id : r \in db[t]} : \A r \in db[t] : r.id <= m) + 1

\* INTEGER PRIMARY KEY AUTOINCREMENT: one more than the largest id the table
\* ever held.
NextId(t) == seq[t] + 1

\* the synced column of an inserted row: 1 if self.is_online else 0
SyncedFlag(online) == IF online THEN 1 ELSE 0

\* the row an INSERT adds
NewRow(t, payload) ==
    [id |-> NextId(t), payload |-> payload,
     synced |-> SyncedFlag(is_online), created_at |-> SqliteTimestamp(now)]

\* SELECT * FROM t WHERE synced = 0, for the four tables
get_unsynced_data(d) == [t \in Tables |-> {r \in d[t] : r.synced = 0}]

\* [record['id'] for record in records]
RecordIds(records) == {r.id : r \in records}

\* UPDATE t SET synced = 1 - synced WHERE id IN (ids)
MarkRowsToggle(rows, ids) ==
    {IF r.id \in ids THEN [r EXCEPT !.synced = 1 - @] ELSE r : r \in rows}

\* UPDATE t SET synced = (id IN (ids))
MarkRowsAssign(rows, ids) ==
    {[r EXCEPT !.synced = IF r.id \in ids THEN 1 ELSE 0] : r \in rows}

\* UPDATE t SET synced = 1
MarkRowsAll(rows, ids) == {[r EXCEPT !.synced = 1] : r \in rows}

\* UPDATE t SET synced = 1 WHERE id >= (the smallest of ids)
MarkRowsFrom(rows, ids) ==
    {IF \E i \in ids : r.id >= i THEN [r EXCEPT !.synced = 1] ELSE r : r \in rows}

\* UPDATE t SET synced = 1 WHERE id IN (ids)
MarkRows(rows, ids) ==
    {IF r.id \in ids THEN [r EXCEPT !.synced = 1] ELSE r : r \in rows}

\* rows whose synced column the UPDATE changes
Flipped(rows, ids) == {r \in rows : r.id \in ids /\ r.synced = 0}

\* DELETE FROM t WHERE synced = 1 AND created_at < cutoff
DeleteOld(rows, cutoff) ==
    {r \in rows : ~(r.synced = 1 /\ TextLess(r.created_at, cutoff))}

\* sum(len(records) for records in unsynced_data.values())
RECURSIVE SumLen(_, _)
SumLen(u, i) ==
    IF i > NumTables THEN 0 ELSE Cardinality(u[TableOrder[i]]) + SumLen(u, i + 1)

\* ------------------------------------------------------------- history
\* The step just taken: the operation, its thread, its table, the ids it was
\* given or produced, what it returned, a count (rows flipped, pending
\* records, days), the payload stored, and whether it repeats the call before.
NoIds == {}
Ev(op, p, t, ids, ret, n, payload, again) ==
    [op |-> op, p |-> p, t |-> t, ids |-> ids, ret |-> ret, n |-> n,
     payload |-> payload, again |-> again]
\* A step no property refers to.
Quiet == Ev("", "", "", NoIds, 1, 0, "", FALSE)
\* Python's True and False as the integers they equal.
PyTrue == 1
PyFalse == 0

TypeOK ==
    /\ \A t \in Tables : \A r \in db[t] : r.id \in 1..seq[t] /\ r.synced \in {0, 1}
    /\ is_online \in BOOLEAN
    /\ appends \in 0..MaxAppends
    /\ Len(evaluations) <= MaxEvals
    /\ \A i \in DOMAIN evaluations : evaluations[i].at <= minute

Init ==
    /\ db = [t \in Tables |-> {}]
    /\ seq = [t \in Tables |-> 0]
    /\ is_online = TRUE
    /\ status_file = [exists |-> FALSE, last_sync |-> None]
    /\ now = [day |-> 0, tod |-> 0]
    /\ pc = [p \in Threads |-> IF p = "bg" THEN "loop" ELSE "idle"]
    /\ batch = [p \in Threads |-> [t \in Tables |-> {}]]
    /\ idx = [p \in Threads |-> 0]
    /\ outcome = [p \in Threads |-> [t \in Tables |-> "none"]]
    /\ pending = [p \in Threads |-> 0]
    /\ lsread = [p \in Threads |-> None]
    /\ delivered = {}
    /\ issued = [t \in Tables |-> << >>]
    /\ appends = 0
    /\ last = Quiet
    /\ store_error = [p \in Threads |-> FALSE]
    /\ assessment = NoAssessment
    /\ minute = 0
    /\ evaluations = << >>
    /\ active_alerts = [k \in {} |-> 0]
    /\ alerts = << >>
    /\ alert_history = << >>

\* ------------------------------------------------------ foreground calls
\* store_pollution_reading / store_alert / store_action / store_report: one
\* INSERT, committed; returns True.
Insert(t, payload) ==
    /\ pc["fg"] = "idle"
    /\ appends < MaxAppends
    /\ db' = [db EXCEPT ![t] = @ \cup {NewRow(t, payload)}]
    /\ seq' = [seq EXCEPT ![t] = NextId(t)]
    /\ issued' = [issued EXCEPT ![t] = Append(@, NextId(t))]
    /\ appends' = appends + 1
    /\ last' = Ev("store", "fg", t, {NextId(t)}, PyTrue, 0, payload, FALSE)
    /\ UNCHANGED engineVars
    /\ UNCHANGED <<store_error, is_online, status_file, now, pc, batch, idx, outcome,
                   pending, lsread, delivered>>

store_pollution_reading(P) == \E pl \in P : Insert("pollution_readings", pl)
store_alert(P) == \E pl \in P : Insert("alerts", pl)
store_action(P) == \E pl \in P : Insert("actions", pl)
store_report(P) == \E pl \in P : Insert("reports", pl)

\* mark_as_synced(table, record_ids), called by a user of the class: one
\* UPDATE, committed; returns True.
\* The id lists a caller passes: ids of rows of the table, and one id the
\* table never held.
MarkIds(t) == SUBSET (RecordIds(db[t]) \cup {seq[t] + 1})

mark_as_synced ==
    \E t \in Tables : \E ids \in MarkIds(t) :
        /\ pc["fg"] = "idle"
        /\ db' = [db EXCEPT ![t] = MarkRows(@, ids)]
        /\ last' = Ev("mark", "fg", t, ids, PyTrue,
                      Cardinality(Flipped(db[t], ids)), "",
                      last.op = "mark" /\ last.t = t /\ last.ids = ids)
        /\ UNCHANGED engineVars
        /\ UNCHANGED <<store_error, seq, is_online, status_file, now, pc, batch, idx, outcome,
                       pending, lsread, delivered, issued, appends>>

\* cleanup_old_data(days): four DELETEs in one transaction.
cleanup_old_data ==
    \E days \in CleanupDays :
        /\ pc["fg"] = "idle"
        /\ db' = [t \in Tables |->
                    DeleteOld(db[t], IsoFormat(MinusDays(now, days)))]
        /\ last' = Ev("cleanup", "fg", "", NoIds, PyTrue, days, "", FALSE)
        /\ UNCHANGED engineVars
        /\ UNCHANGED <<store_error, seq, is_online, status_file, now, pc, batch, idx, outcome,
                       pending, lsread, delivered, issued, appends>>

\* The clock advances: two instants a day.
Tick ==
    /\ now.tod = 0 \/ now.day < MaxDay
    /\ now' = IF now.tod = 0 THEN [now EXCEPT !.tod = 1]
                             ELSE [day |-> now.day + 1, tod |-> 0]
    /\ last' = Quiet
    /\ UNCHANGED engineVars
    /\ UNCHANGED <<store_error, db, seq, is_online, status_file, pc, batch, idx, outcome,
                   pending, lsread, delivered, issued, appends>>

\* ---------------------------------------------------------- _perform_sync
\* First position at or after i of a table with records to sync (the loop of
\* _perform_sync skips a table whose list is empty); NumTables + 1 when the
\* loop is over.
RECURSIVE NextIdx(_, _)
NextIdx(b, i) ==
    IF i > NumTables THEN NumTables + 1
    ELSE IF b[TableOrder[i]] # {} THEN i
    ELSE NextIdx(b, i + 1)

\* Where a cycle stands once its loop reaches position i: at the push of
\* table i, or past the loop at _update_last_sync_time.
AtIdx(i) == IF i <= NumTables THEN "push" ELSE "gs_probe"

\* A loop that gives up at the first failed push.
PushNextBreak(success, b, i) ==
    IF success THEN [pc |-> "mark", idx |-> i]
    ELSE [pc |-> "gs_probe", idx |-> NumTables + 1]

\* A loop that marks whatever the push returned.
PushNextAlways(success, b, i) == [pc |-> "mark", idx |-> i]

\* if success: self.mark_as_synced(...)   else: on to the next table
PushNext(success, b, i) ==
    IF success THEN [pc |-> "mark", idx |-> i]
    ELSE [pc |-> AtIdx(NextIdx(b, i + 1)), idx |-> NextIdx(b, i + 1)]

NoBatch == [t \in Tables |-> {}]
NoOutcome == [t \in Tables |-> "none"]

\* The table a cycle is at.
Cur(p) == TableOrder[idx[p]]

\* The thread is inside _perform_sync's loop with the batch of table t
\* fetched and not yet dealt with.
InFlight(p, t) ==
    /\ pc[p] \in {"push", "mark"}
    /\ batch[p][t] # {}
    /\ \E i \in idx[p]..NumTables : TableOrder[i] = t

\* sync_worker: if self.is_online: self._perform_sync(); then time.sleep.
BgLoop ==
    /\ pc["bg"] = "loop"
    /\ pc' = [pc EXCEPT !["bg"] = IF is_online THEN "fetch" ELSE "sleep"]
    /\ last' = Quiet
    /\ UNCHANGED engineVars
    /\ store_error' = [store_error EXCEPT !["bg"] = FALSE]
    /\ UNCHANGED <<db, seq, is_online, status_file, now, batch, idx, outcome,
                   pending, lsread, delivered, issued, appends>>

\* time.sleep(self.sync_interval) returns.
BgWake ==
    /\ pc["bg"] = "sleep"
    /\ pc' = [pc EXCEPT !["bg"] = "loop"]
    /\ last' = Quiet
    /\ UNCHANGED engineVars
    /\ UNCHANGED <<store_error, db, seq, is_online, status_file, now, batch, idx, outcome,
                   pending, lsread, delivered, issued, appends>>

\* force_sync(): return self._perform_sync()
force_sync ==
    /\ pc["fg"] = "idle"
    /\ pc' = [pc EXCEPT !["fg"] = "fetch"]
    /\ last' = Quiet
    /\ UNCHANGED engineVars
    /\ store_error' = [store_error EXCEPT !["fg"] = FALSE]
    /\ UNCHANGED <<db, seq, is_online, status_file, now, batch, idx, outcome,
                   pending, lsread, delivered, issued, appends>>

\* unsynced_data = self.get_unsynced_data()
Fetch(p) ==
    /\ pc[p] = "fetch"
    /\ batch' = [batch EXCEPT ![p] = get_unsynced_data(db)]
    /\ idx' = [idx EXCEPT ![p] = NextIdx(batch'[p], 1)]
    /\ pc' = [pc EXCEPT ![p] = AtIdx(idx'[p])]
    /\ outcome' = [outcome EXCEPT ![p] = NoOutcome]
    /\ last' = Quiet
    /\ UNCHANGED engineVars
    /\ UNCHANGED <<store_error, db, seq, is_online, status_file, now, pending, lsread,
                   delivered, issued, appends>>

\* success = self._sync_to_remote_server(data_type, records)
PushResult(p, success) ==
        /\ pc[p] = "push"
        /\ outcome' = [outcome EXCEPT ![p][Cur(p)] = IF success THEN "ok" ELSE "fail"]
        /\ delivered' = IF success
                          THEN delivered \cup {<<Cur(p), i>> : i \in RecordIds(batch[p][Cur(p)])}
                          ELSE delivered
        /\ pc' = [pc EXCEPT ![p] = PushNext(success, batch[p], idx[p]).pc]
        /\ idx' = [idx EXCEPT ![p] = PushNext(success, batch[p], idx[p]).idx]
        /\ last' = Ev("push", p, Cur(p), RecordIds(batch[p][Cur(p)]),
                      IF success THEN PyTrue ELSE PyFalse, 0, "", FALSE)
        /\ UNCHANGED engineVars
        /\ UNCHANGED <<store_error, db, seq, is_online, status_file, now, batch, pending,
                       lsread, issued, appends>>

\* _sync_to_remote_server returns True or False.
Push(p) == \E success \in BOOLEAN : PushResult(p, success)

\* self.mark_as_synced(data_type, record_ids)
Mark(p) ==
    /\ pc[p] = "mark"
    /\ db' = [db EXCEPT ![Cur(p)] = MarkRows(@, RecordIds(batch[p][Cur(p)]))]
    /\ idx' = [idx EXCEPT ![p] = NextIdx(batch[p], @ + 1)]
    /\ pc' = [pc EXCEPT ![p] = AtIdx(idx'[p])]
    /\ last' = Ev("cmark", p, Cur(p), RecordIds(batch[p][Cur(p)]), PyTrue,
                  Cardinality(Flipped(db[Cur(p)], RecordIds(batch[p][Cur(p)]))),
                  "", FALSE)
    /\ UNCHANGED engineVars
    /\ UNCHANGED <<store_error, seq, is_online, status_file, now, batch, outcome, pending,
                   lsread, delivered, issued, appends>>

\* -------------------------------------------------------- get_sync_status
\* Called by the user (idx = 0) and by _update_last_sync_time at the end of a
\* cycle (idx = NumTables + 1).
InCycle(p) == idx[p] # 0

get_sync_status ==
    /\ pc["fg"] = "idle"
    /\ pc' = [pc EXCEPT !["fg"] = "gs_probe"]
    /\ last' = Quiet
    /\ UNCHANGED engineVars
    /\ store_error' = [store_error EXCEPT !["fg"] = FALSE]
    /\ UNCHANGED <<db, seq, is_online, status_file, now, batch, idx, outcome,
                   pending, lsread, delivered, issued, appends>>

\* _get_last_sync_time
ReadLastSync == IF status_file.exists THEN status_file.last_sync ELSE None

\* self.is_online = self._check_connectivity()
\* pending_count = sum(len(records) for ... in self.get_unsynced_data())
\* last_sync = self._get_last_sync_time()
GsReadResult(p, online) ==
        /\ pc[p] = "gs_probe"
        /\ is_online' = online
        /\ pending' = [pending EXCEPT ![p] = SumLen(get_unsynced_data(db), 1)]
        /\ lsread' = [lsread EXCEPT ![p] = ReadLastSync]
        /\ pc' = [pc EXCEPT ![p] = "gs_write"]
        \* the locals of _perform_sync's loop are dead from here on
        /\ batch' = [batch EXCEPT ![p] = NoBatch]
        /\ outcome' = [outcome EXCEPT ![p] = NoOutcome]
        /\ last' = Quiet
        /\ UNCHANGED engineVars
        /\ UNCHANGED <<store_error, db, seq, status_file, now, idx, delivered, issued, appends>>

\* _check_connectivity returns True or False.
GsRead(p) == \E online \in BOOLEAN : GsReadResult(p, online)

\* Where a thread goes when its call returns.
Home(p) == IF p = "bg" THEN "sleep" ELSE "idle"

\* json.dump(status, f); return status
GsWrite(p) ==
    /\ pc[p] = "gs_write"
    /\ status_file' = [exists |-> TRUE, last_sync |-> lsread[p]]
    /\ pc' = [pc EXCEPT ![p] = IF InCycle(p) THEN "upd_write" ELSE Home(p)]
    /\ pending' = [pending EXCEPT ![p] = 0]
    /\ lsread' = [lsread EXCEPT ![p] = None]
    /\ last' = Ev("status", p, "", NoIds, PyTrue, pending[p], "", FALSE)
    /\ UNCHANGED engineVars
    /\ UNCHANGED <<store_error, db, seq, is_online, now, batch, idx, outcome,
                   delivered, issued, appends>>

\* _update_last_sync_time that writes last_sync only if no record is left
\* unsynced.
UpdWriteIfDrained(p) ==
    /\ pc[p] = "upd_write"
    /\ status_file' = [exists |-> TRUE,
                       last_sync |-> IF SumLen(get_unsynced_data(db), 1) = 0
                                       THEN IsoFormat(now)
                                       ELSE status_file.last_sync]
    /\ pc' = [pc EXCEPT ![p] = Home(p)]
    /\ idx' = [idx EXCEPT ![p] = 0]
    /\ last' = Ev("cycle_end", p, "", NoIds, PyTrue, 0, "", FALSE)
    /\ UNCHANGED engineVars
    /\ UNCHANGED <<store_error, db, seq, is_online, now, batch, outcome, pending, lsread,
                   delivered, issued, appends>>

\* _update_last_sync_time: status['last_sync'] = now; json.dump(status, f);
\* _perform_sync returns True.
UpdWrite(p) ==
    /\ pc[p] = "upd_write"
    /\ status_file' = [exists |-> TRUE, last_sync |-> IsoFormat(now)]
    /\ pc' = [pc EXCEPT ![p] = Home(p)]
    /\ idx' = [idx EXCEPT ![p] = 0]
    /\ last' = Ev("cycle_end", p, "", NoIds, PyTrue, 0, "", FALSE)
    /\ UNCHANGED engineVars
    /\ UNCHANGED <<store_error, db, seq, is_online, now, batch, outcome, pending, lsread,
                   delivered, issued, appends>>

\* ------------------------------------------------------------------ Spec
\* The background thread and a caller that stores records, asks for the
\* status and forces cycles, at one instant of the clock.
Next ==
    \/ store_pollution_reading(OnePayload)
    \/ store_alert(OnePayload)
    \/ store_action(OnePayload)
    \/ store_report(OnePayload)
    \/ get_sync_status
    \/ force_sync
    \/ BgLoop
    \/ BgWake
    \/ \E p \in Threads : Fetch(p)
    \/ \E p \in Threads : Push(p)
    \/ \E p \in Threads : Mark(p)
    \/ \E p \in Threads : GsRead(p)
    \/ \E p \in Threads : GsWrite(p)
    \/ \E p \in Threads : UpdWrite(p)

Spec == Init /\ [][Next]_vars

\* Every public operation called by one thread, one call after the other,
\* while the background thread sleeps, at one instant of the clock.
NextApi ==
    \/ store_pollution_reading(OnePayload)
    \/ store_alert(OnePayload)
    \/ store_action(OnePayload)
    \/ store_report(OnePayload)
    \/ mark_as_synced
    \/ cleanup_old_data
    \/ get_sync_status
    \/ force_sync
    \/ Fetch("fg")
    \/ Push("fg")
    \/ Mark("fg")
    \/ GsRead("fg")
    \/ GsWrite("fg")
    \/ UpdWrite("fg")

SpecApi == Init /\ [][NextApi]_vars

\* The store as time passes: appends and clean-ups of one caller, online and
\* offline.
NextPrune ==
    \/ store_pollution_reading(OnePayload)
    \/ store_alert(OnePayload)
    \/ store_action(OnePayload)
    \/ store_report(OnePayload)
    \/ cleanup_old_data
    \/ get_sync_status
    \/ GsRead("fg")
    \/ GsWrite("fg")
    \/ Tick

SpecPrune == Init /\ [][NextPrune]_vars

\* The store alone: appends of any payload, marks and status queries of one
\* caller.
NextStore ==
    \/ store_pollution_reading(Payloads)
    \/ store_alert(Payloads)
    \/ store_action(Payloads)
    \/ store_report(Payloads)
    \/ mark_as_synced
    \/ get_sync_status
    \/ GsRead("fg")
    \/ GsWrite("fg")

SpecStore == Init /\ [][NextStore]_vars

\* Forced cycles of one caller as time passes: appends of two kinds, cycles
\* whose pushes succeed or fail, while the background thread sleeps.
NextCycle ==
    \/ store_pollution_reading(OnePayload)
    \/ store_alert(OnePayload)
    \/ force_sync
    \/ Fetch("fg")
    \/ Push("fg")
    \/ Mark("fg")
    \/ GsRead("fg")
    \/ GsWrite("fg")
    \/ UpdWrite("fg")
    \/ Tick

SpecCycle == Init /\ [][NextCycle]_vars

\* The background thread and a caller that stores records and polls the
\* status.  The background thread is always scheduled again, the caller
\* keeps polling, a probe that is made again and again reports online again
\* and again, and a push of a table that is tried again and again succeeds
\* again and again.
NextFair ==
    \/ store_pollution_reading(OnePayload)
    \/ store_alert(OnePayload)
    \/ store_action(OnePayload)
    \/ store_report(OnePayload)
    \/ get_sync_status
    \/ BgLoop
    \/ BgWake
    \/ Fetch("bg")
    \/ Push("bg")
    \/ Mark("bg")
    \/ \E p \in Threads : GsRead(p)
    \/ \E p \in Threads : GsWrite(p)
    \/ UpdWrite("bg")

Fairness ==
    /\ WF_vars(BgLoop)
    /\ WF_vars(BgWake)
    /\ WF_vars(Fetch("bg"))
    /\ WF_vars(Push("bg"))
    /\ WF_vars(Mark("bg"))
    /\ WF_vars(UpdWrite("bg"))
    /\ WF_vars(get_sync_status)
    /\ \A p \in Threads : WF_vars(GsRead(p)) /\ WF_vars(GsWrite(p))
    /\ \A p \in Threads : SF_vars(GsReadResult(p, TRUE))
    /\ \A t \in Tables : SF_vars(PushResult("bg", TRUE) /\ Cur("bg") = t)

FairSpec == Init /\ [][NextFair]_vars /\ Fairness

\* ------------------------------------------------------ storage failures
\* sqlite3.connect or a statement raises (the file is locked, unreadable, on
\* a full disk).  Every method catches the exception itself: store_* return
\* False, get_unsynced_data returns the lists it has filled so far.

\* store_*: except Exception: return False; nothing is inserted.
InsertUnavailable(t, payload) ==
    /\ pc["fg"] = "idle"
    /\ appends < MaxAppends
    /\ appends' = appends + 1
    /\ last' = Ev("store", "fg", t, NoIds, PyFalse, 0, payload, FALSE)
    /\ UNCHANGED engineVars
    /\ UNCHANGED <<store_error, db, seq, issued, is_online, status_file, now, pc,
                   batch, idx, outcome, pending, lsread, delivered>>

store_unavailable == \E t \in Tables : \E pl \in OnePayload : InsertUnavailable(t, pl)

\* What get_unsynced_data returns when the exception is raised after k of
\* its four SELECTs (k = 0: sqlite3.connect or the first SELECT raises): the
\* lists of the first k tables, the other lists still empty.
Partial(u, k) ==
    [t \in Tables |-> IF \E i \in 1..k : TableOrder[i] = t THEN u[t] ELSE {}]

\* unsynced_data = self.get_unsynced_data() of _perform_sync, the store
\* failing: the cycle goes on with the lists returned.
FetchUnavailable(p) ==
    \E k \in 0..(NumTables - 1) :
        /\ pc[p] = "fetch"
        /\ batch' = [batch EXCEPT ![p] = Partial(get_unsynced_data(db), k)]
        /\ idx' = [idx EXCEPT ![p] = NextIdx(batch'[p], 1)]
        /\ pc' = [pc EXCEPT ![p] = AtIdx(idx'[p])]
        /\ outcome' = [outcome EXCEPT ![p] = NoOutcome]
        /\ store_error' = [store_error EXCEPT ![p] = TRUE]
        /\ last' = Ev("query_error", p, "", NoIds, PyTrue, k, "", FALSE)
        /\ UNCHANGED engineVars
        /\ UNCHANGED <<db, seq, is_online, status_file, now, pending, lsread,
                       delivered, issued, appends>>

\* get_sync_status, the store failing in its get_unsynced_data: the count is
\* taken over the lists returned.
GsReadUnavailable(p) ==
    \E online \in BOOLEAN : \E k \in 0..(NumTables - 1) :
        /\ pc[p] = "gs_probe"
        /\ is_online' = online
        /\ pending' = [pending EXCEPT
                         ![p] = SumLen(Partial(get_unsynced_data(db), k), 1)]
        /\ lsread' = [lsread EXCEPT ![p] = ReadLastSync]
        /\ pc' = [pc EXCEPT ![p] = "gs_write"]
        /\ batch' = [batch EXCEPT ![p] = NoBatch]
        /\ outcome' = [outcome EXCEPT ![p] = NoOutcome]
        /\ store_error' = [store_error EXCEPT ![p] = TRUE]
        /\ last' = Ev("query_error", p, "", NoIds, PyTrue, k, "", FALSE)
        /\ UNCHANGED engineVars
        /\ UNCHANGED <<db, seq, status_file, now, idx, delivered, issued, appends>>

\* The two time.sleep calls of sync_worker and their seconds: the one after
\* the try body, self.sync_interval, and the one of the except branch.  No
\* step leads to the second: _perform_sync catches every Exception of a cycle
\* and returns False.
sync_interval == 300
retry_wait == 60
SleepSeconds == [sleep |-> sync_interval, retry |-> retry_wait]

\* The background thread and a caller that stores records and asks for the
\* status, the store failing now and then.
NextFault ==
    \/ store_pollution_reading(OnePayload)
    \/ store_alert(OnePayload)
    \/ store_unavailable
    \/ get_sync_status
    \/ BgLoop
    \/ BgWake
    \/ Fetch("bg")
    \/ FetchUnavailable("bg")
    \/ Push("bg")
    \/ Mark("bg")
    \/ \E p \in Threads : GsRead(p)
    \/ \E p \in Threads : GsReadUnavailable(p)
    \/ \E p \in Threads : GsWrite(p)
    \/ UpdWrite("bg")

SpecFault == Init /\ [][NextFault]_vars

\* ------------------------------------------------------------- retention
\* The retention window of alert records, in days.
RetentionDays == 30

\* The clock passes the window: RetentionDays + 1 days go by.
Elapse ==
    /\ now.day + RetentionDays + 1 <= MaxDay * (RetentionDays + 1)
    /\ now' = [now EXCEPT !.day = @ + RetentionDays + 1]
    /\ last' = Quiet
    /\ UNCHANGED engineVars
    /\ UNCHANGED <<store_error, db, seq, is_online, status_file, pc, batch, idx,
                   outcome, pending, lsread, delivered, issued, appends>>

\* The store over more than a retention window: appends and clean-ups of one
\* caller, online and offline.
NextRetain ==
    \/ store_pollution_reading(OnePayload)
    \/ store_alert(Payloads)
    \/ cleanup_old_data
    \/ get_sync_status
    \/ GsRead("fg")
    \/ GsWrite("fg")
    \/ Tick
    \/ Elapse

SpecRetain == Init /\ [][NextRetain]_vars

\* ------------------------------------------- calculate_individual_gas_risk
\* self.health_impact_factors
health_impact_factors ==
    [co2 |-> [low |-> 400, moderate |-> 800, high |-> 1000, critical |-> 5000],
     no2 |-> [low |-> 40, moderate |-> 100, high |-> 200, critical |-> 400],
     so2 |-> [low |-> 20, moderate |-> 125, high |-> 500, critical |-> 1000]]

Gases == DOMAIN health_impact_factors

\* the if / elif chain with < in place of <=
RiskLevelStrict(th, level) ==
    IF FlLess(level, FromInt(th.low)) THEN "low"
    ELSE IF FlLess(level, FromInt(th.moderate)) THEN "moderate"
    ELSE IF FlLess(level, FromInt(th.high)) THEN "high"
    ELSE "critical"

\* the if / elif chain: the branch taken
RiskLevel(th, level) ==
    IF FlLeq(level, FromInt(th.low)) THEN "low"
    ELSE IF FlLeq(level, FromInt(th.moderate)) THEN "moderate"
    ELSE IF FlLeq(level, FromInt(th.high)) THEN "high"
    ELSE "critical"

\* base + ((level - from) / (to - from)) * width
Ramp(base, level, from, to, width) ==
    FlAdd(FromInt(base),
          FlMul(FlDiv(FlSub(level, FromInt(from)), FromInt(to - from)),
                FromInt(width)))

\* (level / thresholds['low']) * 25
LowScore(th, level) == FlMul(FlDiv(level, FromInt(th.low)), FromInt(25))

ModerateScore(th, level) == Ramp(25, level, th.low, th.moderate, 25)

\* the high branch with a ramp of 50 in place of 30
HighScoreWide(th, level) == Ramp(50, level, th.moderate, th.high, 50)

HighScore(th, level) == Ramp(50, level, th.moderate, th.high, 30)

\* 80 + min(((level - high) / (critical - high)) * 20, 20)
CriticalScore(th, level) ==
    FlAdd(FromInt(80),
          FlMin(FlMul(FlDiv(FlSub(level, FromInt(th.high)),
                            FromInt(th.critical - th.high)),
                      FromInt(20)),
                FromInt(20)))

\* risk_score of the branch taken
RiskScore(th, risk_level, level) ==
    IF risk_level = "low" THEN LowScore(th, level)
    ELSE IF risk_level = "moderate" THEN ModerateScore(th, level)
    ELSE IF risk_level = "high" THEN HighScore(th, level)
    ELSE CriticalScore(th, level)

\* the dict returned (health_effects and recommended_actions are looked up
\* in tables by gas and risk_level)
Risk(gas, level) ==
    LET th == health_impact_factors[gas]
        risk_level == RiskLevel(th, level)
    IN [gas |-> gas, level |-> level, risk_level |-> risk_level,
        risk_score |-> FlMin(RiskScore(th, risk_level, level), FromInt(100))]

\* The levels a gas is assessed at: zero, a tiny level, each threshold, the
\* floats and the integers next to it, levels inside each band, levels far
\* above the critical threshold, and a negative level.
Levels(gas) ==
    LET th == health_impact_factors[gas]
        T == {th.low, th.moderate, th.high, th.critical}
    IN {Zero, Normal(1, 1, -30), FromInt(-5)}
       \cup {FromInt(t) : t \in T}
       \cup {NextUp(FromInt(t)) : t \in T}
       \cup {NextDown(FromInt(t)) : t \in T}
       \cup {FromInt(t + 1) : t \in T}
       \cup {FromInt(t - 1) : t \in T}
       \cup {FromInt(n) : n \in {1, th.low \div 2,
                                (th.low + th.moderate) \div 2,
                                (th.moderate + th.high) \div 2,
                                (th.high + th.critical) \div 2,
                                th.critical + th.high, 2 * th.critical}}
       \cup {Normal(1, 4 * t + 1, -2) : t \in T}
       \cup {Normal(1, 4 * t - 1, -2) : t \in T}

calculate_individual_gas_risk ==
    \E gas \in Gases : \E level \in Levels(gas) :
        /\ assessment' = Risk(gas, level)
        /\ UNCHANGED syncVars
        /\ UNCHANGED <<minute, evaluations, active_alerts, alerts, alert_history>>

\* The risk function alone, called with any gas at any of the levels.
NextRisk == calculate_individual_gas_risk

SpecRisk == Init /\ [][NextRisk]_vars

\* ------------------------------------------------------------ check_alerts
\* The gases in the order check_alerts goes through them.
GasOrder == <<"co2", "no2", "so2">>

\* self.alert_persistence_threshold, minutes
alert_persistence_threshold == 10

\* The characters of the words alert keys are made of.
Spelling ==
    [co2 |-> <<"c", "o", "2">>, no2 |-> <<"n", "o", "2">>,
     so2 |-> <<"s", "o", "2">>, high |-> <<"h", "i", "g", "h">>,
     critical |-> <<"c", "r", "i", "t", "i", "c", "a", "l">>]

\* f"{gas}_{risk_level}"
AlertKey(gas, risk_level) == Spelling[gas] \o <<"_">> \o Spelling[risk_level]

\* a startswith that matches no key
StartsWithNever(key, prefix) == FALSE

\* key.startswith(prefix)
StartsWith(key, prefix) ==
    Len(key) >= Len(prefix) /\ SubSeq(key, 1, Len(prefix)) = prefix

\* an else branch that removes the key of the high band only
NormalizedHighOnly(active, gas) ==
    [k \in {key \in DOMAIN active : key # AlertKey(gas, "high")} |-> active[k]]

\* an else branch that empties the table
NormalizedAll(active, gas) == [k \in {} |-> 0]

\* self.active_alerts after the else branch: the keys that start with the
\* gas are deleted
Normalized(active, gas) ==
    [k \in {key \in DOMAIN active : ~StartsWith(key, Spelling[gas])} |-> active[k]]

\* a branch that starts the candidate again at every call
StartedAfresh(active, key, info) ==
    [k \in DOMAIN active \cup {key} |-> IF k = key THEN info ELSE active[k]]

\* a branch that drops the other candidates of the gas when it starts one
StartedAlone(active, key, info) ==
    IF key \in DOMAIN active THEN active
    ELSE [k \in {x \in DOMAIN active : active[x].gas # info.gas} \cup {key} |->
             IF k = key THEN info ELSE active[k]]

\* self.active_alerts after the alert_key not in self.active_alerts branch
Started(active, key, info) ==
    IF key \in DOMAIN active THEN active
    ELSE [k \in DOMAIN active \cup {key} |-> IF k = key THEN info ELSE active[k]]

\* thresholds the duration is compared with by > and by nothing
PersistedStrict(duration) == duration > alert_persistence_threshold
PersistedAlways(duration) == duration >= 0

\* alert_duration >= self.alert_persistence_threshold
Persisted(duration) == duration >= alert_persistence_threshold

\* 'critical' if risk_level == 'critical' else 'warning'
Severity(risk_level) == IF risk_level = "critical" THEN "critical" ELSE "warning"

\* The readings check_alerts is called with: a gas in its high band, in its
\* critical band, in a band below while another gas is at its high
\* threshold, a negative level beside a gas at its high threshold, and a
\* name that is no gas beside a gas in its critical band.
Readings ==
    {[no2 |-> 150], [no2 |-> 250], [no2 |-> 90, so2 |-> 500],
     [no2 |-> -5, co2 |-> 1000], [o3 |-> 50, so2 |-> 600]}

\* risk_assessment = self.calculate_individual_gas_risk(gas, readings[gas]),
\* for each gas and each level of the readings
Assessed ==
    [gas \in Gases |->
        [level \in {r[gas] : r \in {x \in Readings : gas \in DOMAIN x}} |->
            Risk(gas, FromInt(level))]]

\* self.active_alerts[alert_key] = {...}: the candidate a call at
\* current_time t starts
Candidate(gas, level, risk, t) ==
    [start_time |-> t, gas |-> gas, level |-> level,
     risk_level |-> risk.risk_level, risk_score |-> risk.risk_score]

\* The dict appended to alerts.  Its message, health effects and recommended
\* actions are texts made from the gas, the risk level and the duration.
Alert(gas, level, risk, duration) ==
    [gas |-> gas, level |-> level, risk_level |-> risk.risk_level,
     risk_score |-> risk.risk_score, duration_minutes |-> duration,
     severity |-> Severity(risk.risk_level)]

\* alert_duration = current_time - start_time, in minutes
AlertDuration(active, key, t) == t - active[key].start_time

\* The list alerts after the persistence test of a gas in an alerting band.
Emitted(gas, level, risk, t, active, out) ==
    IF Persisted(AlertDuration(active, AlertKey(gas, risk.risk_level), t))
      THEN Append(out, Alert(gas, level, risk,
                             AlertDuration(active, AlertKey(gas, risk.risk_level), t)))
      ELSE out

\* The body of the loop for one gas of the readings: active_alerts and
\* alerts after it.
CheckGas(gas, level, risk, t, res) ==
    IF risk.risk_level \in {"high", "critical"}
      THEN [active |-> Started(res.active, AlertKey(gas, risk.risk_level),
                               Candidate(gas, level, risk, t)),
            alerts |-> Emitted(gas, level, risk, t,
                               Started(res.active, AlertKey(gas, risk.risk_level),
                                       Candidate(gas, level, risk, t)),
                               res.alerts)]
      ELSE [active |-> Normalized(res.active, gas), alerts |-> res.alerts]

\* The loop of check_alerts from the i-th gas on, at current_time t.
RECURSIVE CheckFrom(_, _, _, _)
CheckFrom(i, readings, t, res) ==
    IF i > Len(GasOrder) THEN res
    ELSE IF GasOrder[i] \notin DOMAIN readings
           THEN CheckFrom(i + 1, readings, t, res)
           ELSE CheckFrom(i + 1, readings, t,
                          CheckGas(GasOrder[i], readings[GasOrder[i]],
                                   Assessed[GasOrder[i]][readings[GasOrder[i]]],
                                   t, res))

\* alert['timestamp'] = datetime.now().isoformat(), for each alert
Stamped(list, t) ==
    [i \in DOMAIN list |->
        [gas |-> list[i].gas, level |-> list[i].level,
         risk_level |-> list[i].risk_level, risk_score |-> list[i].risk_score,
         duration_minutes |-> list[i].duration_minutes,
         severity |-> list[i].severity, timestamp |-> t]]

\* _save_alerts_to_history: the file after the alerts are added and the
\* entries of the last 30 days are kept
RECURSIVE Recent(_, _)
Recent(history, t) ==
    IF history = << >> THEN << >>
    ELSE IF Head(history).timestamp > t - 30 * 24 * 60
           THEN <<Head(history)>> \o Recent(Tail(history), t)
           ELSE Recent(Tail(history), t)
SavedHistory(history, list, t) == Recent(history \o Stamped(list, t), t)

\* Minutes between a call of check_alerts and the call before it.
Delays == {1, 9, 10}

\* check_alerts(readings), called d minutes after the call before it.  The
\* alerts it returns are the dicts it saved, with their timestamp.
check_alerts ==
    \E d \in Delays : \E readings \in Readings :
        LET t == minute + d
            res == CheckFrom(1, readings, t,
                             [active |-> active_alerts, alerts |-> << >>])
        IN /\ Len(evaluations) < MaxEvals
           /\ minute' = t
           /\ evaluations' = Append(evaluations, [at |-> t, readings |-> readings])
           /\ active_alerts' = res.active
           /\ alerts' = Stamped(res.alerts, t)
           /\ alert_history' = IF res.alerts # << >>
                                 THEN SavedHistory(alert_history, res.alerts, t)
                                 ELSE alert_history
           /\ UNCHANGED syncVars
           /\ UNCHANGED assessment

\* The alert engine alone: one caller evaluates readings as time passes.
NextAlert == check_alerts

SpecAlert == Init /\ [][NextAlert]_vars

\* ================================================================ claims

\* C1: every record that was stored is at some later time contained in a
\* batch whose push returned success.
C1_EventualDelivery ==
    \A t \in Tables : \A i \in 1..MaxAppends :
        (seq[t] >= i) ~> (<<t, i>> \in delivered)

\* C2: a record just appended has synced = 0 and is among the rows the
\* unsynced query returns for its table, with the payload it was stored with.
C2_AppendRoundTrip ==
    last.op = "store" =>
        \E r \in get_unsynced_data(db)[last.t] :
            r.id \in last.ids /\ r.payload = last.payload /\ r.synced = 0

\* C3: when the loop of a cycle that ran alone is over, every table whose
\* push succeeded has none of its fetched rows unsynced, every table whose
\* push failed has the unsynced rows it had when the cycle fetched, and every
\* table that had rows was pushed, whatever happened to the tables before it.
LoopOver(p) == pc[p] = "gs_probe" /\ InCycle(p)
C3_PartialFailure ==
    \A p \in Threads : LoopOver(p) =>
        \A t \in Tables :
            /\ outcome[p][t] = "ok" =>
                   get_unsynced_data(db)[t] \cap batch[p][t] = {}
            /\ outcome[p][t] = "fail" =>
                   get_unsynced_data(db)[t] = batch[p][t]
            /\ batch[p][t] # {} => outcome[p][t] # "none"

\* A cycle ended in which the push of one table failed and the push of a
\* later table succeeded.
C3_Witness ==
    \E p \in Threads : \E i, j \in 1..NumTables :
        /\ LoopOver(p)
        /\ i < j
        /\ outcome[p][TableOrder[i]] = "fail"
        /\ outcome[p][TableOrder[j]] = "ok"
        /\ get_unsynced_data(db)[TableOrder[i]] # {}

\* C4: no push and no mark_as_synced of a cycle happens while the
\* connectivity flag, the result of the latest probe, says offline.
C4_OfflineSkip == last.op \in {"push", "cmark"} => is_online

\* C5: two cycles are never both between the fetch and the mark of the same
\* table, and no row is pushed with success by two cycles that overlap.
C5_NoInterleave ==
    \A t \in Tables :
        /\ ~(InFlight("bg", t) /\ InFlight("fg", t))
        /\ ~(/\ outcome["bg"][t] = "ok"
             /\ outcome["fg"][t] = "ok"
             /\ batch["bg"][t] \cap batch["fg"][t] # {})

\* C6: a cycle stands at its mark_as_synced call only for a table whose push
\* returned success in that cycle; the ids it marks are ids of the batch that
\* push delivered; after a failed push the cycle does not mark that table.
C6_MarkAfterSuccess ==
    /\ \A p \in Threads : pc[p] = "mark" => outcome[p][Cur(p)] = "ok"
    /\ last.op = "cmark" =>
           /\ outcome[last.p][last.t] = "ok"
           /\ last.ids = RecordIds(batch[last.p][last.t])
           /\ \A i \in last.ids : <<last.t, i>> \in delivered
    /\ (last.op = "push" /\ last.ret = PyFalse) =>
           /\ pc[last.p] # "mark"
           /\ outcome[last.p][last.t] = "fail"

\* A cycle has just marked rows of one table after the push of another table
\* failed in the same cycle.
C6_Witness ==
    /\ last.op = "cmark"
    /\ last.n > 0
    /\ \E t \in Tables : outcome[last.p][t] = "fail"

\* C7: no step turns the synced column of a row that stays in its table from
\* 1 back to 0.
C7_SyncedMonotone ==
    [][\A t \in Tables : \A r \in db[t] : \A r2 \in db'[t] :
          (r.synced = 1 /\ r2.id = r.id) => r2.synced = 1]_vars

\* mark_as_synced has just been called with the id of a row that was synced
\* already, beside a row that is not synced.
C7_Witness ==
    /\ last.op = "mark"
    /\ last.n = 0
    /\ \E r \in db[last.t] : r.id \in last.ids /\ r.synced = 1
    /\ \E r \in db[last.t] : r.id \notin last.ids /\ r.synced = 0

\* C8: the ids a table hands out are strictly increasing in append order,
\* rows deleted since included.
C8_IdsIncreasing ==
    \A t \in Tables : \A i, j \in DOMAIN issued[t] :
        i < j => issued[t][i] < issued[t][j]

\* A row has just been appended to a table whose previous row was deleted by
\* cleanup_old_data.
C8_Witness ==
    /\ last.op = "store"
    /\ Len(issued[last.t]) >= 2
    /\ issued[last.t][Len(issued[last.t]) - 1] \notin RecordIds(db[last.t])

\* C9: cleanup_old_data removes only synced rows, removes every synced row
\* created before the cutoff instant, and keeps every row created after it
\* (rows created at the cutoff instant itself are left open: the instants of
\* the model are coarser than the clock).
C9_PruneExact ==
    [][last'.op = "cleanup" =>
          \A t \in Tables : \A r \in db[t] :
              LET cutoff == MinusDays(now, last'.n)
                  created == InstantOf(r.created_at)
              IN /\ r \notin db'[t] => (r.synced = 1 /\ ~Earlier(cutoff, created))
                 /\ (r.synced = 1 /\ Earlier(created, cutoff)) => r \notin db'[t]]_vars

C11_MarkFrame ==
    [][last'.op \in {"mark", "cmark"} =>
          LET t == last'.t
              ids == last'.ids
          IN /\ \A r \in get_unsynced_data(db')[t] : r.id \notin ids
             /\ \A r \in db[t] : r.id \notin ids => r \in db'[t]
             /\ \A r \in db[t] : r.id \in ids => [r EXCEPT !.synced = 1] \in db'[t]
             /\ RecordIds(db'[t]) = RecordIds(db[t])
             /\ Cardinality(db'[t]) = Cardinality(db[t])
             /\ \A u \in Tables \ {t} : db'[u] = db[u]]_vars

\* mark_as_synced has just flipped a row while another row, of the same table
\* or of another, is not synced.
C11_Witness ==
    /\ last.op = "mark"
    /\ last.n > 0
    /\ \E t \in Tables : \E r \in db[t] :
           r.synced = 0 /\ (t # last.t \/ r.id \notin last.ids)

Within(lo, x, hi) == FlLeq(FromInt(lo), x) /\ FlLeq(x, FromInt(hi))
Above(lo, x, hi) == FlLess(FromInt(lo), x) /\ FlLeq(x, FromInt(hi))

\* C19: the band of an assessment is low exactly when level <= low, moderate
\* exactly when low < level <= moderate, high exactly when
\* moderate < level <= high, and critical exactly when level > high: a level
\* equal to a threshold is in the band below it.
C19_BandBoundaries ==
    assessment.gas # "" =>
        LET th == health_impact_factors[assessment.gas]
            v == assessment.level
            band == assessment.risk_level
        IN /\ band = "low" <=> FlLeq(v, FromInt(th.low))
           /\ band = "moderate" <=>
                  (FlLess(FromInt(th.low), v) /\ FlLeq(v, FromInt(th.moderate)))
           /\ band = "high" <=>
                  (FlLess(FromInt(th.moderate), v) /\ FlLeq(v, FromInt(th.high)))
           /\ band = "critical" <=> FlLess(FromInt(th.high), v)

\* A gas has been assessed at exactly its high threshold.
C19_Witness ==
    /\ assessment.gas # ""
    /\ assessment.level = FromInt(health_impact_factors[assessment.gas].high)
    /\ assessment.risk_level = "high"

\* C20 (as amended): for a level that is not negative the score is in
\* [0, 100]: in [0, 25] in band low, [25, 50] in band moderate, [50, 80] in
\* band high, [80, 100] in band critical, and it is 100 at and above the
\* critical threshold.
C20_ScoreRangesClosed ==
    (assessment.gas # "" /\ ~IsNegative(assessment.level)) =>
        LET th == health_impact_factors[assessment.gas]
            band == assessment.risk_level
            score == assessment.risk_score
        IN /\ Within(0, score, 100)
           /\ band = "low" => Within(0, score, 25)
           /\ band = "moderate" => Within(25, score, 50)
           /\ band = "high" => Within(50, score, 80)
           /\ band = "critical" => Within(80, score, 100)
           /\ FlLeq(FromInt(th.critical), assessment.level) => score = FromInt(100)

\* A gas has been assessed at the float next above its high threshold: the
\* band is critical and the score is 80.
C20_Witness ==
    /\ assessment.gas # ""
    /\ assessment.level = NextUp(FromInt(health_impact_factors[assessment.gas].high))
    /\ assessment.risk_level = "critical"
    /\ assessment.risk_score = FromInt(80)

\* C20 (as claimed): for a level that is not negative the score is in
\* [0, 100]: in [0, 25] in band low, (25, 50] in band moderate, (50, 80] in
\* band high, (80, 100] in band critical, and it is 100 at and above the
\* critical threshold.
C20_ScoreRanges ==
    (assessment.gas # "" /\ ~IsNegative(assessment.level)) =>
        LET th == health_impact_factors[assessment.gas]
            band == assessment.risk_level
            score == assessment.risk_score
        IN /\ Within(0, score, 100)
           /\ band = "low" => Within(0, score, 25)
           /\ band = "moderate" => Above(25, score, 50)
           /\ band = "high" => Above(50, score, 80)
           /\ band = "critical" => Above(80, score, 100)
           /\ FlLeq(FromInt(th.critical), assessment.level) => score = FromInt(100)

\* ---------------------------------------------- claims on check_alerts
\* The band a gas was in at the i-th check_alerts call, "absent" if the
\* readings of that call did not name it.
BandAt(i, gas) ==
    IF gas \in DOMAIN evaluations[i].readings
      THEN Assessed[gas][evaluations[i].readings[gas]].risk_level
      ELSE "absent"
Alerting(band) == band \in {"high", "critical"}
Calm(band) == band \in {"low", "moderate"}
NumEvals == Len(evaluations)
\* The positions, in the list the latest call returned, of the alerts of a gas.
AlertsFor(gas) == {i \in DOMAIN alerts : alerts[i].gas = gas}

\* C13: every alert a check_alerts call returns is the alert of a candidate
\* (gas, band) that was started by a call that found the gas in that band,
\* at least alert_persistence_threshold minutes before; its duration is the
\* time since that start.
C13_PersistenceGate ==
    \A i \in DOMAIN alerts :
        LET key == AlertKey(alerts[i].gas, alerts[i].risk_level)
        IN /\ key \in DOMAIN active_alerts
           /\ minute - active_alerts[key].start_time >= alert_persistence_threshold
           /\ alerts[i].duration_minutes = minute - active_alerts[key].start_time
           /\ \E j \in 1..NumEvals :
                  /\ evaluations[j].at = active_alerts[key].start_time
                  /\ BandAt(j, alerts[i].gas) = alerts[i].risk_level

\* The latest call returned an alert whose candidate is exactly
\* alert_persistence_threshold minutes old, while a younger candidate of
\* another gas is in the table.
C13_Witness ==
    /\ \E i \in DOMAIN alerts :
           alerts[i].duration_minutes = alert_persistence_threshold
    /\ \E key \in DOMAIN active_alerts :
           /\ minute - active_alerts[key].start_time < alert_persistence_threshold
           /\ AlertsFor(active_alerts[key].gas) = {}

\* C14: an alert of a gas is returned only at the end of a stay of the gas
\* in its alerting bands, not broken by a call that found it in a band
\* below, that has lasted alert_persistence_threshold minutes; a gas that
\* alternates between high and moderate with shorter stays never alerts.
C14_TransientSuppression ==
    \A i \in DOMAIN alerts :
        \E j \in 1..NumEvals :
            /\ Alerting(BandAt(j, alerts[i].gas))
            /\ \A k \in j..NumEvals : ~Calm(BandAt(k, alerts[i].gas))
            /\ minute - evaluations[j].at >= alert_persistence_threshold

\* no2 was high, moderate and high again at the last three calls, the first
\* of them alert_persistence_threshold minutes ago or more, and the latest
\* call returned no alert for it.
C14_Witness ==
    /\ NumEvals >= 3
    /\ BandAt(NumEvals - 2, "no2") = "high"
    /\ BandAt(NumEvals - 1, "no2") = "moderate"
    /\ BandAt(NumEvals, "no2") = "high"
    /\ minute - evaluations[NumEvals - 2].at >= alert_persistence_threshold
    /\ AlertsFor("no2") = {}

\* C15: after a call that finds a gas in the low or moderate band the table
\* holds no candidate of that gas; every candidate of a gas was started
\* later than every call that found the gas in such a band, and every alert
\* of the gas has a duration of alert_persistence_threshold minutes or more
\* that began later than every such call.
C15_RecoveryReset ==
    /\ \A gas \in Gases : \A key \in DOMAIN active_alerts :
           (NumEvals > 0 /\ Calm(BandAt(NumEvals, gas))) =>
               active_alerts[key].gas # gas
    /\ \A key \in DOMAIN active_alerts : \A j \in 1..NumEvals :
           Calm(BandAt(j, active_alerts[key].gas)) =>
               active_alerts[key].start_time > evaluations[j].at
    /\ \A i \in DOMAIN alerts : \A j \in 1..NumEvals :
           Calm(BandAt(j, alerts[i].gas)) =>
               /\ alerts[i].duration_minutes >= alert_persistence_threshold
               /\ minute - alerts[i].duration_minutes > evaluations[j].at

\* The latest call returned an alert for no2, which an earlier call found
\* in an alerting band and a call after that in a band below.
C15_Witness ==
    /\ AlertsFor("no2") # {}
    /\ \E i, j \in 1..NumEvals :
           i < j /\ Alerting(BandAt(i, "no2")) /\ Calm(BandAt(j, "no2"))

\* C16: when a gas has been in the same alerting band at every call since
\* the call that first found it there (the first call to name the gas, or
\* the call after one that found it in a band below), the latest call
\* returns no alert for the gas if less than alert_persistence_threshold
\* minutes have passed since that call, and otherwise exactly one, whose
\* duration is the time since that call and whose severity is critical in
\* the critical band and warning in the high band.
C16_EmitEveryTick ==
    \A gas \in Gases : \A i \in 1..NumEvals :
        LET band == BandAt(i, gas)
            elapsed == minute - evaluations[i].at
        IN (/\ Alerting(band)
            /\ \A k \in i..NumEvals : BandAt(k, gas) = band
            /\ \/ \A k \in 1..(i - 1) : BandAt(k, gas) = "absent"
               \/ (i > 1 /\ Calm(BandAt(i - 1, gas))))
           => IF elapsed < alert_persistence_threshold
                THEN AlertsFor(gas) = {}
                ELSE /\ Cardinality(AlertsFor(gas)) = 1
                     /\ \A a \in AlertsFor(gas) :
                            /\ alerts[a].risk_level = band
                            /\ alerts[a].duration_minutes = elapsed
                            /\ alerts[a].severity =
                                   IF band = "critical" THEN "critical" ELSE "warning"

\* no2 has been critical at the last three calls at least; the call before
\* the latest was alert_persistence_threshold minutes after the first of
\* them, and the latest call returned a critical alert again.
C16_Witness ==
    /\ NumEvals >= 3
    /\ \A k \in (NumEvals - 2)..NumEvals : BandAt(k, "no2") = "critical"
    /\ evaluations[NumEvals - 1].at - evaluations[NumEvals - 2].at
           = alert_persistence_threshold
    /\ \E a \in AlertsFor("no2") : alerts[a].severity = "critical"

\* Readings that name something that is no gas, or give a negative level.
Malformed(readings) ==
    \/ \E name \in DOMAIN readings : name \notin Gases
    \/ \E name \in DOMAIN readings : readings[name] < 0

\* C17: a check_alerts call whose readings name an unknown signal or give a
\* negative level is rejected: it returns no alert and leaves active_alerts
\* as it was.
C17_RejectsMalformed ==
    [][(Len(evaluations') > Len(evaluations)
        /\ Malformed(evaluations'[Len(evaluations')].readings))
          => (active_alerts' = active_alerts /\ alerts' = << >>)]_vars

\* C18: every check_alerts call adds as many rows to the alerts table of the
\* store as it returns alerts.
C18_AlertsReachStore ==
    [][Len(evaluations') > Len(evaluations)
          => Cardinality(db'["alerts"]) = Cardinality(db["alerts"]) + Len(alerts')]_vars

\* ------------------------------------------------------ claims C21 - C30
\* C21: the pending count a status query takes is the number of rows with
\* synced = 0 in the four tables at the moment of the query, also when the
\* store cannot be read: a backlog is never counted as less than it is.
C21_PendingTruthful ==
    [][\A p \in Threads :
          (pc[p] = "gs_probe" /\ pc'[p] = "gs_write")
              => pending'[p] = SumLen(get_unsynced_data(db), 1)]_vars

\* A value r returned by get_unsynced_data that a call without an exception
\* returns as well: for the store as it is, for the empty store, or for the
\* store that holds the rows of r and no other.
Indistinguishable(r) ==
    \E d \in {db, NoBatch, r} : get_unsynced_data(d) = r

\* C22: a store_* call that could not insert returns False, and a
\* get_unsynced_data call that caught a storage error hands _perform_sync a
\* value no successful call returns.
C22_FailuresReported ==
    [][/\ (last'.op = "store" /\ last'.ids = NoIds) => last'.ret = PyFalse
       /\ \A p \in Threads :
             (pc[p] = "fetch" /\ store_error'[p])
                 => ~Indistinguishable(batch'[p])]_vars

\* C23: the background loop starts an attempt only out of a time.sleep, and
\* the sleep it enters lasts retry_wait seconds after a cycle that met a
\* storage error and sync_interval seconds after any other pass.
C23_WaitBetweenCycles ==
    [][/\ (pc'["bg"] = "loop" /\ pc["bg"] # "loop")
              => pc["bg"] \in DOMAIN SleepSeconds
       /\ (pc'["bg"] \in DOMAIN SleepSeconds /\ pc["bg"] # pc'["bg"])
              => SleepSeconds[pc'["bg"]] =
                     IF store_error'["bg"] THEN retry_wait ELSE sync_interval]_vars

\* C24: after a store_alert call that returned True the alerts table holds
\* no row created more than RetentionDays days before the call.
C24_PrunedOnAppend ==
    (last.op = "store" /\ last.t = "alerts" /\ last.ret = PyTrue)
        => \A r \in db["alerts"] :
              ~Earlier(InstantOf(r.created_at), MinusDays(now, RetentionDays))

\* The candidates of a gas in the table.
CandidatesOf(gas) == {key \in DOMAIN active_alerts : active_alerts[key].gas = gas}

\* The j-th call is the one at which the gas entered band b, as seen from
\* the latest call: it found the gas in b, no call since found the gas low
\* or moderate, and every earlier call that found the gas in b was followed,
\* before the j-th, by a call that found it low or moderate.
EnteredAt(j, gas, b) ==
    /\ BandAt(j, gas) = b
    /\ \A k \in j..NumEvals : ~Calm(BandAt(k, gas))
    /\ \A k \in 1..(j - 1) :
           BandAt(k, gas) = b => \E m \in k..j : Calm(BandAt(m, gas))

\* C25: after a call whose readings name a gas, the table holds no candidate
\* of the gas if the call found it low or moderate; if the call found it in
\* band b, high or critical, the table holds one candidate of the gas and
\* the band, under the key of the gas and the band, whose start_time is the
\* time of the call at which the gas entered b since it was last found low
\* or moderate.
C25_CandidateLifecycle ==
    \A gas \in Gases :
        (NumEvals > 0 /\ BandAt(NumEvals, gas) # "absent") =>
            /\ Calm(BandAt(NumEvals, gas)) => CandidatesOf(gas) = {}
            /\ Alerting(BandAt(NumEvals, gas)) =>
                  /\ {key \in CandidatesOf(gas) :
                         active_alerts[key].risk_level = BandAt(NumEvals, gas)}
                        = {AlertKey(gas, BandAt(NumEvals, gas))}
                  /\ \E j \in 1..NumEvals :
                         /\ EnteredAt(j, gas, BandAt(NumEvals, gas))
                         /\ active_alerts[AlertKey(gas, BandAt(NumEvals, gas))].start_time
                                = evaluations[j].at

\* no2 was found high, then critical, then high again: the table holds its
\* high candidate, started at the first of the three calls, and its critical
\* candidate.
C25_Witness ==
    /\ NumEvals >= 3
    /\ BandAt(NumEvals - 2, "no2") = "high"
    /\ BandAt(NumEvals - 1, "no2") = "critical"
    /\ BandAt(NumEvals, "no2") = "high"
    /\ AlertKey("no2", "critical") \in DOMAIN active_alerts
    /\ AlertKey("no2", "high") \in DOMAIN active_alerts
    /\ active_alerts[AlertKey("no2", "high")].start_time < evaluations[NumEvals - 1].at

\* C26: every row with synced = 1 was in a batch of its table whose push
\* returned success.
C26_SyncedImpliesDelivered ==
    \A t \in Tables : \A r \in db[t] :
        r.synced = 1 => <<t, r.id>> \in delivered

\* C27: once sync_status.json holds the last_sync of a completed cycle, no
\* step of either thread replaces it by None or by an earlier timestamp.
C27_LastSyncMonotone ==
    [][status_file.last_sync # None =>
          /\ status_file'.last_sync # None
          /\ ~TextLess(status_file'.last_sync, status_file.last_sync)]_vars

\* C28: while the background cycle is between its fetch and the end of its
\* loop, no step sets the synced column of a row that is not in the batch
\* the cycle fetched: a row appended with synced = 0 after the fetch has
\* synced = 0 when the cycle ends, whatever the table and whatever the pushes
\* returned.
C28_AppendsNotSwallowed ==
    [][\A t \in Tables : \A r \in db[t] :
          (/\ pc["bg"] \in {"push", "mark"}
           /\ r.synced = 0
           /\ r.id \notin RecordIds(batch["bg"][t]))
              => r \in db'[t]]_vars

\* The background cycle has just marked the rows of its batch of a table, and
\* the table holds a row, appended after the fetch, that is still unsynced.
C28_Witness ==
    /\ last.op = "cmark"
    /\ last.p = "bg"
    /\ last.n > 0
    /\ \E r \in db[last.t] :
           /\ r.synced = 0
           /\ \A i \in last.ids : i < r.id

\* The latest call found the gas in band to, and the call before it that
\* named the gas found it in band from.
Moved(gas, from, to) ==
    /\ NumEvals >= 2
    /\ BandAt(NumEvals, gas) = to
    /\ \E j \in 1..(NumEvals - 1) :
           /\ BandAt(j, gas) = from
           /\ \A k \in (j + 1)..(NumEvals - 1) : BandAt(k, gas) = "absent"

\* The table holds the candidate of the gas and band b, started at the call
\* at which the gas entered b since it was last found low or moderate.
KeptFromEntry(gas, b) ==
    /\ AlertKey(gas, b) \in DOMAIN active_alerts
    /\ \E j \in 1..NumEvals :
           /\ EnteredAt(j, gas, b)
           /\ active_alerts[AlertKey(gas, b)].start_time = evaluations[j].at

\* The alerts of the gas the latest call returned: none if the candidate of
\* the gas and band b is younger than the threshold, one otherwise, whose
\* duration is the age of that candidate.
GatedBy(gas, b) ==
    /\ AlertKey(gas, b) \in DOMAIN active_alerts
    /\ IF minute - active_alerts[AlertKey(gas, b)].start_time
             >= alert_persistence_threshold
         THEN /\ Cardinality(AlertsFor(gas)) = 1
              /\ \A i \in AlertsFor(gas) :
                     /\ alerts[i].risk_level = b
                     /\ alerts[i].duration_minutes =
                            minute - active_alerts[AlertKey(gas, b)].start_time
         ELSE AlertsFor(gas) = {}

\* C29, as stated: at a call that finds in the critical band a gas the call
\* before found in the high band, the high candidate stays with its first
\* start_time, a critical candidate is started at the time of this call and
\* no alert of the gas is returned.
C29_EscalationOpens ==
    \A gas \in Gases :
        Moved(gas, "high", "critical") =>
            /\ KeptFromEntry(gas, "high")
            /\ AlertKey(gas, "critical") \in DOMAIN active_alerts
            /\ active_alerts[AlertKey(gas, "critical")].start_time = minute
            /\ AlertsFor(gas) = {}

\* C29, amended: at a call that finds in the critical band a gas the call
\* before found in the high band, the high candidate stays with its first
\* start_time and the table holds a critical candidate, started at this call
\* unless the gas has been critical before since it was last low or moderate,
\* in which case it has kept the start_time of that entry; the alert of a
\* critical gas is gated and timed by the critical candidate alone, and at a
\* call that finds the gas back in the high band by the high candidate, the
\* time spent in critical included.
C29_EscalationKeeps ==
    \A gas \in Gases :
        /\ Moved(gas, "high", "critical") =>
               /\ KeptFromEntry(gas, "high")
               /\ KeptFromEntry(gas, "critical")
               /\ (\A j \in 1..(NumEvals - 1) :
                       BandAt(j, gas) = "critical" =>
                           \E k \in j..NumEvals : Calm(BandAt(k, gas)))
                      => /\ active_alerts[AlertKey(gas, "critical")].start_time = minute
                         /\ AlertsFor(gas) = {}
        /\ (NumEvals > 0 /\ BandAt(NumEvals, gas) = "critical") =>
               GatedBy(gas, "critical")
        /\ Moved(gas, "critical", "high") =>
               /\ KeptFromEntry(gas, "high")
               /\ GatedBy(gas, "high")

\* no2 was found high, then critical, then high again, and the latest call
\* returned its alert although less than a threshold has passed since the
\* call that found it critical.
C29_Witness ==
    /\ NumEvals >= 3
    /\ BandAt(NumEvals - 2, "no2") = "high"
    /\ BandAt(NumEvals - 1, "no2") = "critical"
    /\ BandAt(NumEvals, "no2") = "high"
    /\ AlertsFor("no2") # {}
    /\ minute - evaluations[NumEvals - 1].at < alert_persistence_threshold
    /\ AlertKey("no2", "critical") \in DOMAIN active_alerts

\* The keys of the candidates of a gas in a table.
KeysOf(active, gas) == {key \in DOMAIN active : active[key].gas = gas}

\* The band the call recorded last in a history found a gas in.
LatestBand(evals, gas) ==
    IF gas \in DOMAIN evals[Len(evals)].readings
      THEN Assessed[gas][evals[Len(evals)].readings[gas]].risk_level
      ELSE "absent"

\* The candidates of a gas that a table holds are in the other table too,
\* with the same contents.
Kept(before, after, gas) ==
    /\ KeysOf(before, gas) \subseteq KeysOf(after, gas)
    /\ \A key \in KeysOf(before, gas) : after[key] = before[key]

\* C30: a check_alerts call whose readings omit a gas leaves the candidates
\* of the gas as they are, whatever it clears or starts for the gases it
\* names; for a gas it names, the candidates of the gas after the call are
\* settled by the band of that gas alone: all cleared in a low or moderate
\* band, all kept in a high or critical band, with at most the candidate of
\* that band added.
C30_FramePerGas ==
    [][evaluations' # evaluations =>
          \A gas \in Gases :
              /\ LatestBand(evaluations', gas) = "absent" =>
                     /\ Kept(active_alerts, active_alerts', gas)
                     /\ KeysOf(active_alerts', gas) = KeysOf(active_alerts, gas)
              /\ Calm(LatestBand(evaluations', gas)) =>
                     KeysOf(active_alerts', gas) = {}
              /\ Alerting(LatestBand(evaluations', gas)) =>
                     /\ Kept(active_alerts, active_alerts', gas)
                     /\ KeysOf(active_alerts', gas) =
                            KeysOf(active_alerts, gas)
                                \cup {AlertKey(gas, LatestBand(evaluations', gas))}]_vars

\* The latest call omitted co2, whose candidate is in the table, cleared the
\* candidate of no2 that the call before had left there, and started a
\* candidate of so2.
C30_Witness ==
    /\ NumEvals >= 2
    /\ BandAt(NumEvals, "co2") = "absent"
    /\ CandidatesOf("co2") # {}
    /\ Alerting(BandAt(NumEvals - 1, "no2"))
    /\ Calm(BandAt(NumEvals, "no2"))
    /\ \E key \in CandidatesOf("so2") : active_alerts[key].start_time = minute

====
